---- MODULE Spec2Model ----
(***************************************************************************)
(* Model of swift/container/sync.py: the ContainerSync daemon.             *)
(*                                                                         *)
(* The daemon is a single worker.  Its state is the five counters, the     *)
(* position of the scan loop (run_once / run_forever) and the frame of the *)
(* container_sync call in progress.  The durable state is, per container,  *)
(* the change log and the persisted cursor x_container_sync_row.  Every    *)
(* answer of a collaborator (broker, ring, remote client, clock) is an     *)
(* input drawn with \E.                                                    *)
(***************************************************************************)
EXTENDS Integers, Sequences, FiniteSets, TLC

\* ------------------------------------------------------------- bounds

\* Changes the container servers record in one run, over all containers;
\* a change log hands out the ROWIDs 1, 2, ... without gaps.
MaxRows == 3
\* The clock is abstract: the hourly report is due at the latest when
\* MaxCount events have been counted since the last one.
MaxCount == 1

\* ------------------------------------------------------------- inputs

\* The values of container_time, in clock ticks: no budget at all, and a
\* budget that one slow call uses up.
ContainerTimes == {0, 1}

\* Container databases found on the local devices.
Containers == {"c1", "c2"}
\* Paths the locator yields: one database file per container, and one file
\* that is no database.
NonDbPath == "c1.db.pending"
DbPath(c) == IF c = "c1" THEN "c1.db" ELSE "c2.db"
Paths == {DbPath(c) : c \in Containers} \cup {NonDbPath}

\* path.endswith('.db')
EndsWithDb(path) == path \in {DbPath(c) : c \in Containers}
\* The container a database path belongs to.
ContainerOf(path) == CHOOSE c \in Containers : DbPath(c) = path

\* Python's None, as a value no metadata value equals.
None == <<"None">>

\* ----------------------------------------------------- pure helpers

Max(S) == CHOOSE x \in S : \A y \in S : y <= x
Min(S) == CHOOSE x \in S : \A y \in S : x <= y
Last(s) == s[Len(s)]

\* A metadata value is a string, kept as its sequence of tokens: a host
\* token stands for "http://<host>/v1/AUTH_a/c", "/" is one slash, and
\* <<>> is the empty string.
AllowedHost == "127.0.0.1"
OtherHost == "10.0.0.5"
SyncToValues == {<<>>, <<"/">>, <<AllowedHost>>, <<AllowedHost, "/">>, <<OtherHost>>}
SyncKeyValues == {<<>>, <<"secret">>}

\* Keys as the container server stores them (one spelling per key).
MetaKeys == {"X-Container-Sync-To", "x-container-sync-key", "X-Container-Read"}

\* key.lower()
Lower(key) ==
    CASE key = "X-Container-Sync-To" -> "x-container-sync-to"
      [] key = "x-container-sync-key" -> "x-container-sync-key"
      [] key = "X-Container-Read" -> "x-container-read"
      [] OTHER -> key

\* broker.metadata: a mapping from some of the keys to values (the
\* timestamps are never read).  A key that is no sync key holds the allowed
\* host, and comes with one sync key or none.
Metadatas ==
    UNION {{md \in [K -> SyncToValues \cup SyncKeyValues] :
               /\ "X-Container-Sync-To" \in K => md["X-Container-Sync-To"] \in SyncToValues
               /\ "x-container-sync-key" \in K => md["x-container-sync-key"] \in SyncKeyValues
               /\ "X-Container-Read" \in K => /\ md["X-Container-Read"] = <<AllowedHost>>
                                              /\ Cardinality(K) <= 2
                                              /\ \A k \in K : md[k] # <<>> /\ md[k] # <<"/">>}
           : K \in SUBSET MetaKeys}

\* The scan of broker.metadata.iteritems(): the value of the key that
\* lower-cases to `wanted`, None when no key does.
MetadataScan(md, wanted) ==
    LET hits == {k \in DOMAIN md : Lower(k) = wanted}
    IN IF hits = {} THEN None ELSE md[CHOOSE k \in hits : TRUE]

\* A variant of `not value` that holds of None only.
OnlyNoneFalsy(value) == value = None

\* `not value`: None and the empty string are false.
Falsy(value) == value = None \/ value = <<>>

\* sync_to.rstrip('/')
RECURSIVE Rstrip(_)
Rstrip(s) ==
    IF s # <<>> /\ Last(s) = "/" THEN Rstrip(SubSeq(s, 1, Len(s) - 1)) ELSE s

\* self.allowed_sync_hosts, the default of the configuration.
allowed_sync_hosts == {AllowedHost}

\* validate_sync_to(sync_to, allowed_sync_hosts): None, or the reason the
\* target is refused.
NoError == "None"
ValidateSyncTo(value, allowed) ==
    IF value = <<>> THEN "Invalid scheme"
    ELSE IF Head(value) \notin allowed THEN "Invalid host"
    ELSE NoError

\* ------------------------------------------------------- change log

\* A change row.  The object name and created_at follow from the ROWID.
RowRecs == [ROWID : 1..MaxRows, deleted : BOOLEAN]
NoRow == [ROWID |-> 0, deleted |-> FALSE]

RowIds(log) == {r.ROWID : r \in log}
LastRowId(log) == IF log = {} THEN 0 ELSE Max(RowIds(log))

\* broker.get_items_since(start, count): the first `count` rows with
\* ROWID > start, in ROWID order.
RECURSIVE GetItemsSince(_, _, _)
GetItemsSince(log, start, count) ==
    LET later == {r \in log : r.ROWID > start}
    IN IF count = 0 \/ later = {} THEN <<>>
       ELSE LET first == CHOOSE r \in later : \A q \in later : r.ROWID <= q.ROWID
            IN <<first>> \o GetItemsSince(log, first.ROWID, count - 1)

\* ---------------------------------------------------- row replication

\* What a remote call answers: an HTTP status, or "exc" for an error that
\* is no ClientException (a socket error, a timeout).
DeleteResponses == {"204", "404", "401", "503", "exc"}
GetResponses == {"200", "404", "503", "exc"}
PutResponses == {"201", "401", "404", "503", "exc"}
\* Statuses the clients raise as ClientException (not 2xx).
ClientStatuses == {"401", "404", "503"}
NoExc == "none"

\* The replica nodes of the object ring, and the node lists get_nodes and
\* random.shuffle can leave: every ordering of every set of nodes.
Nodes == {"n1", "n2"}
NodeLists ==
    {<<>>} \cup {<<n>> : n \in Nodes}
           \cup UNION {{<<n, m>> : m \in Nodes \ {n}} : n \in Nodes}

\* The node list when the shuffle leaves the ring's order.
RingOrder == {<<"n1", "n2">>}

\* A remote call: what was asked of whom, and the answer.
Call(op, to, status) == [op |-> op, to |-> to, status |-> status]

\* The headers of a response or of a request: a mapping from header names
\* to values.  The names are spelled as direct_get_object delivers them,
\* in lower case (the case container_sync_row looks them up in), except
\* for one that arrives spelled as the code writes it.
HeaderNames == {"date", "last-modified", "etag", "x-timestamp", "X-Timestamp",
                "content-type"}
Quote == "\""
EtagValues == {<<"abc">>, <<Quote, "abc", Quote>>, <<"W/", Quote, "abc", Quote>>}
HeaderValues(name) == IF name = "etag" THEN EtagValues ELSE {<<"fetched">>}
FetchedHeaders ==
    UNION {{h \in [K -> EtagValues \cup {<<"fetched">>}] :
               \A n \in K : h[n] \in HeaderValues(n)}
           : K \in SUBSET HeaderNames}
NoHeaders == [n \in {} |-> <<>>]
\* The headers of the object every replica answers with in the daemon's
\* scans.
PlainHeaders ==
    [n \in {"date", "last-modified", "etag", "content-type"} |->
        IF n = "etag" THEN <<Quote, "abc", Quote>> ELSE <<"fetched">>]

\* headers['etag'].strip('"')
RECURSIVE StripQuotes(_)
StripQuotes(s) ==
    IF s # <<>> /\ Head(s) = Quote THEN StripQuotes(Tail(s))
    ELSE IF s # <<>> /\ Last(s) = Quote
         THEN StripQuotes(SubSeq(s, 1, Len(s) - 1))
    ELSE s

\* row['created_at']: it follows from the row.
CreatedAt(row) == <<"created_at", ToString(row.ROWID)>>

\* The headers of the PUT, made of the fetched ones.
SanitizeHeaders(headers, row, key) ==
    LET kept == DOMAIN headers \ {"date", "last-modified"}
    IN [n \in kept \cup {"X-Timestamp", "X-Container-Sync-Key"} |->
          IF n = "X-Container-Sync-Key" THEN key
          ELSE IF n = "X-Timestamp" THEN CreatedAt(row)
          ELSE IF n = "etag" THEN StripQuotes(headers[n])
          ELSE headers[n]]

\* A remote call that carries headers worth recording: the read that
\* succeeded (the headers it fetched) and the PUT (the headers it sends).
HeaderCall(op, to, status, headers) ==
    [op |-> op, to |-> to, status |-> status, headers |-> headers]

\* part, nodes = self.object_ring.get_nodes(...); random.shuffle(nodes):
\* the call of the ring, with the node list as shuffled.
RingCall(nodes) ==
    [op |-> "get_nodes", to |-> "object_ring", status |-> "shuffled",
     nodes |-> nodes]

\* Variants of the DELETE of a deleted row: one that lets no
\* ClientException out whatever its status, one that lets the 404 out too.
DeleteObjectAnyStatus(resp) == IF resp = "exc" THEN "exc" ELSE NoExc
DeleteObjectNot404(resp) == IF resp = "204" THEN NoExc ELSE resp

\* The inner try of the deleted branch: the exception that leaves it.
DeleteObject(resp) ==
    IF resp \in ClientStatuses
    THEN IF resp # "404" THEN resp ELSE NoExc
    ELSE IF resp = "exc" THEN "exc" ELSE NoExc

\* A variant of the fan-out that stops at the first node whatever it
\* answered, and raises nothing.
GetObjectFirstNode(nodes, getResp, exc, calls) ==
    [raised |-> NoExc,
     calls |-> IF nodes = <<>> THEN calls
               ELSE Append(calls, Call("GET", Head(nodes), getResp[Head(nodes)]))]

\* The for/else over the shuffled nodes: the exception that leaves it
\* (NoExc after a successful read) and the reads made.
RECURSIVE GetObject(_, _, _, _)
GetObject(nodes, getResp, exc, calls) ==
    IF nodes = <<>>
    THEN [raised |-> IF exc # NoExc THEN exc ELSE "exc", calls |-> calls]
    ELSE LET node == Head(nodes)
             made == Append(calls, Call("GET", node, getResp[node]))
         IN IF getResp[node] = "200" THEN [raised |-> NoExc, calls |-> made]
            ELSE IF getResp[node] \in ClientStatuses
                 THEN GetObject(Tail(nodes), getResp, getResp[node], made)
                 ELSE [raised |-> "exc", calls |-> made]

\* The reads of the fan-out, the one that succeeded with the headers it
\* fetched.
WithFetched(made, fetched) ==
    [i \in 1..Len(made) |->
        IF made[i].status = "200"
        THEN HeaderCall(made[i].op, made[i].to, made[i].status, fetched)
        ELSE made[i]]

\* A variant of the PUT that takes a 404 for success, as the DELETE does.
PutObjectNot404(resp) == IF resp \in {"201", "404"} THEN NoExc ELSE resp

\* client.put_object: the exception it raises.
PutObject(resp) == IF resp = "201" THEN NoExc ELSE resp

\* The log line of the shared failure handling.
FailureLog(raised) ==
    CASE raised = "401" -> "unauth"
      [] raised = "404" -> "notfound"
      [] OTHER -> "exception"

\* container_sync_row(row, ...): its return value, the counter it
\* increments, the remote calls it makes and what it logs.
ContainerSyncRowResult(row, delResp, nodes, getResp, putResp, fetched, key) ==
    LET got == GetObject(nodes, getResp, NoExc, <<>>)
        raised == IF row.deleted THEN DeleteObject(delResp)
                  ELSE IF got.raised # NoExc THEN got.raised
                  ELSE PutObject(putResp)
        calls == IF row.deleted THEN <<Call("DELETE", "sync_to", delResp)>>
                 ELSE IF got.raised # NoExc THEN <<RingCall(nodes)>> \o got.calls
                 ELSE Append(<<RingCall(nodes)>> \o WithFetched(got.calls, fetched),
                             HeaderCall("PUT", "sync_to", putResp,
                                        SanitizeHeaders(fetched, row, key)))
    IN [rv |-> raised = NoExc,
        counter |-> IF raised # NoExc THEN "failures"
                    ELSE IF row.deleted THEN "deletes" ELSE "puts",
        calls |-> calls,
        log |-> IF raised = NoExc THEN "none" ELSE FailureLog(raised)]

\* -------------------------------------------------------------- state

VARIABLES
    mode,                 \* "once" (run_once) or "forever" (run_forever)
    container_time,       \* self.container_time, in clock ticks
    rows,                 \* per container: its change log, a set of rows
    cursor,               \* per container: the persisted x_container_sync_row
    container_syncs,      \* self.container_syncs
    container_deletes,    \* self.container_deletes
    container_puts,       \* self.container_puts
    container_skips,      \* self.container_skips
    container_failures,   \* self.container_failures
    pc,                   \* where the daemon is
    all_locs,             \* the paths the locator has still to yield
    path,                 \* container_sync: its argument
    info,                 \* container_sync: info['x_container_sync_row']
    sync_to,              \* container_sync: sync_to
    sync_key,             \* container_sync: sync_key
    sync_row,             \* container_sync: sync_row
    row,                  \* container_sync: rows[0]
    elapsed,              \* clock ticks since stop_at was computed
    seen,                 \* history: the container as the call found it (is it
                          \* deleted, has it each key, is its target allowed)
    exit,                 \* history: how the container_sync call ended
    rv,                   \* history: what the last container_sync_row returned
    calls,                \* history: the remote calls of the last row
    attempted,            \* history: ROWIDs handed to container_sync_row this call
    acked                 \* history: per container, ROWIDs the remote acknowledged

counters == <<container_syncs, container_deletes, container_puts,
              container_skips, container_failures>>
config == <<mode, container_time>>
frame == <<path, info, sync_to, sync_key, sync_row, row, elapsed>>
history == <<seen, exit, rv, calls, attempted>>
vars == <<config, rows, cursor, counters, pc, all_locs, frame, history, acked>>

Modes == {"once", "forever"}
NoSeen == [known |-> FALSE, deleted |-> FALSE, to |-> FALSE, key |-> FALSE,
           allowed |-> FALSE]

\* The container's metadata holds the key, in any case, with a value that
\* is not empty.
HasKey(md, wanted) == \E k \in DOMAIN md : Lower(k) = wanted /\ md[k] # <<>>
\* The host of the container's sync target is the allowed host.
TargetAllowed(md) ==
    \E k \in DOMAIN md :
        /\ Lower(k) = "x-container-sync-to"
        /\ \E i \in 1..Len(md[k]) : md[k][i] = AllowedHost

\* audit_location_generator: the paths in the order of the listing.
AllLocs == <<"c1.db", NonDbPath, "c2.db">>

\* ContainerSync.__init__: the counters at zero.
FreshDaemon ==
    /\ container_syncs = 0
    /\ container_deletes = 0
    /\ container_puts = 0
    /\ container_skips = 0
    /\ container_failures = 0

\* No container_sync call in progress.
NoFrame ==
    /\ path = NonDbPath
    /\ info = 0
    /\ sync_to = None
    /\ sync_key = None
    /\ sync_row = 0
    /\ row = NoRow
    /\ elapsed = 0
    /\ seen = NoSeen
    /\ exit = "none"
    /\ rv = "none"
    /\ calls = <<>>
    /\ attempted = <<>>

\* The daemon as started by run_forever (Init) or by run_once (OnceInit),
\* over containers nothing was recorded in yet.
Start(m) ==
    /\ mode = m
    /\ container_time \in ContainerTimes
    /\ rows = [c \in Containers |-> {}]
    /\ cursor = [c \in Containers |-> 0]
    /\ acked = [c \in Containers |-> {}]
    /\ FreshDaemon
    /\ pc = "start"
    /\ all_locs = <<>>
    /\ NoFrame

Init == Start("forever")
OnceInit == Start("once")

\* ------------------------------------------------------------ actions

\* self.container_<name> += 1, the other counters left alone.
Count(name) ==
    /\ container_syncs' = container_syncs + (IF name = "syncs" THEN 1 ELSE 0)
    /\ container_deletes' = container_deletes + (IF name = "deletes" THEN 1 ELSE 0)
    /\ container_puts' = container_puts + (IF name = "puts" THEN 1 ELSE 0)
    /\ container_skips' = container_skips + (IF name = "skips" THEN 1 ELSE 0)
    /\ container_failures' = container_failures + (IF name = "failures" THEN 1 ELSE 0)

\* A variant of report() that leaves the failures counted.
ReportKeepsFailures ==
    /\ container_syncs' = 0
    /\ container_deletes' = 0
    /\ container_puts' = 0
    /\ container_skips' = 0
    /\ container_failures' = container_failures

\* report(): the counters back to zero.
Report ==
    /\ container_syncs' = 0
    /\ container_deletes' = 0
    /\ container_puts' = 0
    /\ container_skips' = 0
    /\ container_failures' = 0

\* The frame of a container_sync call that returned is dropped.
DropFrame ==
    /\ path' = NonDbPath
    /\ info' = 0
    /\ sync_to' = None
    /\ sync_key' = None
    /\ sync_row' = 0
    /\ row' = NoRow
    /\ elapsed' = 0
    /\ seen' = NoSeen
    /\ exit' = "none"
    /\ rv' = "none"
    /\ calls' = <<>>
    /\ attempted' = <<>>

\* time.time() has advanced by d ticks since the last look at the clock;
\* only its comparison with stop_at is ever read, so it saturates (and is
\* zero again once the call is over).
Tick(d) == IF elapsed + d < container_time THEN elapsed + d ELSE container_time
\* The ticks a blocking call can take (one that changes nothing is left out).
Ticks == {d \in 0..1 : d = 0 \/ elapsed < container_time}

\* The collaborator that raises during the first part of container_sync.
BeginFaults == {"none", "open", "get_info", "is_deleted", "metadata", "validate"}

\* A variant that starts every call at the beginning of the change log.
SyncRowFromStart(x_container_sync_row) == 0

\* sync_row = info['x_container_sync_row']
InitialSyncRow(x_container_sync_row) == x_container_sync_row

\* A variant that goes on whatever validate_sync_to answered.
RefusedNever(err) == FALSE

\* if err: (the reason validate_sync_to gave is logged, the call is over)
Refused(err) == err # NoError

\* container_sync up to the row loop: how it leaves that part ("loop" when
\* it enters the row loop), and its locals (kept only for the row loop).
ContainerSyncHead(p, fault, deleted, md) ==
    LET to == MetadataScan(md, "x-container-sync-to")
        key == MetadataScan(md, "x-container-sync-key")
        out(how, t, k) == [exit |-> how,
                           sync_to |-> IF how = "loop" THEN t ELSE None,
                           sync_key |-> IF how = "loop" THEN k ELSE None]
    IN IF ~EndsWithDb(p) THEN out("notdb", None, None)
       ELSE IF fault = "open" THEN out("raised", None, None)
       ELSE IF fault \in {"get_info", "is_deleted"} THEN out(fault, None, None)
       ELSE IF deleted THEN out("deleted", None, None)
       ELSE IF fault = "metadata" THEN out(fault, None, None)
       ELSE IF Falsy(to) \/ Falsy(key) THEN out("skip", to, key)
       ELSE IF fault = "validate" THEN out(fault, Rstrip(to), key)
       ELSE IF Refused(ValidateSyncTo(Rstrip(to), allowed_sync_hosts))
            THEN out("invalid", Rstrip(to), key)
       ELSE out("loop", Rstrip(to), key)

\* The ways of leaving container_sync through its exception handler: the
\* collaborator that raised.
ErrorExits == {"get_info", "is_deleted", "metadata", "validate",
               "get_items_since", "set_x_container_sync_row"}

\* A variant that tests the sync metadata of a deleted container too, and
\* counts it as skipped.
ExitCounterDeletedSkips(how) ==
    CASE how \in {"skip", "deleted"} -> "skips"
      [] how \in {"invalid", "raised", "rowfail"} \cup ErrorExits -> "failures"
      [] how \in {"norows", "deadline"} -> "syncs"
      [] OTHER -> "none"

\* The counter a way of leaving container_sync increments.
ExitCounter(how) ==
    CASE how = "skip" -> "skips"
      [] how \in {"invalid", "raised", "rowfail"} \cup ErrorExits -> "failures"
      [] how \in {"norows", "deadline"} -> "syncs"
      [] OTHER -> "none"

\* Where the daemon is after container_sync was left that way: in the row
\* loop, back in the scan loop, or dead of an exception nothing catches
\* (the handler of container_sync reads broker, which was never bound).
ExitPc(how) ==
    CASE how = "loop" -> "loop"
      [] how = "raised" -> "dead"
      [] OTHER -> "check"

\* What the broker would answer is drawn only if the call gets to read it
\* (what is never read is drawn once, not once per value): is_deleted is not
\* read after an earlier fault, the metadata is not read when reading it
\* raises, and validate_sync_to is reached only with both values truthy.
EarlyFaults == {"open", "get_info", "is_deleted"}
NoMetadata == [k \in {} |-> <<>>]
DeletedsRead(fault, deleteds) ==
    IF fault \in EarlyFaults THEN {FALSE}
    ELSE IF fault = "none" THEN deleteds
    ELSE deleteds \ {TRUE}
MetadatasRead(fault, mds) ==
    IF fault \in EarlyFaults \cup {"metadata"} THEN {NoMetadata}
    ELSE IF fault = "validate"
         THEN {md \in mds : /\ ~Falsy(MetadataScan(md, "x-container-sync-to"))
                             /\ ~Falsy(MetadataScan(md, "x-container-sync-key"))}
    ELSE mds

\* for path, device, partition in all_locs: self.container_sync(path),
\* up to the row loop.
ContainerSyncBegin(faults, deleteds, mds) ==
    /\ pc = "next"
    /\ all_locs # <<>>
    /\ \E fault \in faults :
       \E deleted \in DeletedsRead(fault, deleteds) :
       \E md \in MetadatasRead(fault, mds) :
          LET p == Head(all_locs)
              head == ContainerSyncHead(p, fault, deleted, md)
          IN /\ all_locs' = Tail(all_locs)
             /\ path' = p
             /\ info' = IF head.exit = "loop" THEN cursor[ContainerOf(p)] ELSE 0
             /\ sync_to' = head.sync_to
             /\ sync_key' = head.sync_key
             /\ sync_row' = IF head.exit = "loop" THEN InitialSyncRow(info') ELSE 0
             /\ row' = NoRow
             /\ elapsed' = 0
             /\ seen' = IF head.exit \notin {"notdb", "raised"} \cup ErrorExits
                        THEN [known |-> TRUE,
                              deleted |-> deleted,
                              to |-> HasKey(md, "x-container-sync-to"),
                              key |-> HasKey(md, "x-container-sync-key"),
                              allowed |-> TargetAllowed(md)]
                        ELSE NoSeen
             /\ exit' = head.exit
             /\ rv' = "none"
             /\ calls' = <<>>
             /\ attempted' = <<>>
             /\ Count(ExitCounter(head.exit))
             /\ pc' = ExitPc(head.exit)
    /\ UNCHANGED <<config, rows, cursor, acked>>

\* A variant that goes on when the clock is exactly at stop_at.
DeadlineOverrun(ticks, budget) == ticks > budget

\* while time.time() < stop_at
DeadlinePassed(ticks, budget) == ~(ticks < budget)

\* rows = broker.get_items_since(sync_row, 1)
NextRows(log, since) == GetItemsSince(log, since, 1)

\* The head of the row loop: the deadline, the next row, and the end of
\* container_sync when the loop is over.
ContainerSyncLoop(faults) ==
    /\ pc = "loop"
    /\ \E fault \in faults, d \in Ticks :
          LET fetched == NextRows(rows[ContainerOf(path)], sync_row)
              how == IF DeadlinePassed(elapsed, container_time) THEN "deadline"
                     ELSE IF fault = "get_items_since" THEN fault
                     ELSE IF fetched = <<>> THEN "norows"
                     ELSE "row"
          IN /\ exit' = IF how = "row" THEN exit ELSE how
             /\ row' = IF how = "row" THEN fetched[1] ELSE row
             /\ elapsed' = IF how = "row" THEN Tick(d) ELSE 0
             /\ Count(ExitCounter(how))
             /\ pc' = IF how = "row" THEN "row" ELSE "check"
    /\ UNCHANGED <<config, rows, cursor, acked, all_locs, path, info, sync_to,
                   sync_key, sync_row, seen, rv, calls, attempted>>

\* A variant that goes on whatever container_sync_row returned.
AfterRowGoOn(ok) == "setrow"

\* if not self.container_sync_row(...): return
AfterRow(ok) == IF ok THEN "setrow" ELSE "check"

\* The remote side confirmed the effect of the row: the DELETE was answered
\* with success or 404, the PUT with success.
Confirmed(made) ==
    /\ made # <<>>
    /\ \/ Last(made).op = "DELETE" /\ Last(made).status \in {"204", "404"}
       \/ Last(made).op = "PUT" /\ Last(made).status = "201"

\* if not self.container_sync_row(rows[0], ...): return
ContainerSyncRow(delResps, nodeLists, getResps, putResps, headerSets) ==
    /\ pc = "row"
    /\ \E delResp \in (IF row.deleted THEN delResps ELSE {"204"}),
          nodes \in (IF row.deleted THEN {<<>>} ELSE nodeLists),
          d \in Ticks :
       \E getResp \in [Nodes -> getResps] :
        /\ \A n \in Nodes : (\A i \in 1..Len(nodes) : nodes[i] # n) => getResp[n] = "200"
        /\ \E putResp \in (IF GetObject(nodes, getResp, NoExc, <<>>).raised = NoExc
                            /\ ~row.deleted THEN putResps ELSE {"201"}),
              fetched \in (IF GetObject(nodes, getResp, NoExc, <<>>).raised = NoExc
                            /\ ~row.deleted THEN headerSets ELSE {NoHeaders}) :
          LET res == ContainerSyncRowResult(row, delResp, nodes, getResp, putResp,
                                            fetched, sync_key)
              c == ContainerOf(path)
          IN /\ rv' = IF res.rv THEN "True" ELSE "False"
             /\ calls' = res.calls
             /\ attempted' = Append(attempted, row.ROWID)
             /\ acked' = IF Confirmed(res.calls)
                         THEN [acked EXCEPT ![c] = @ \cup {row.ROWID}]
                         ELSE acked
             /\ Count(res.counter)
             /\ exit' = IF res.rv THEN exit ELSE "rowfail"
             /\ pc' = AfterRow(res.rv)
             /\ elapsed' = IF res.rv THEN Tick(d) ELSE 0
    /\ UNCHANGED <<config, rows, cursor, all_locs, path, info, sync_to, sync_key,
                   sync_row, row, seen>>

\* A variant that stores the id after the row's.
SyncRowPastRow(r) == r.ROWID + 1

\* sync_row = rows[0]['ROWID']
NewSyncRow(r) == r.ROWID

\* sync_row = rows[0]['ROWID']; broker.set_x_container_sync_row(sync_row)
ContainerSyncSetRow(faults) ==
    /\ pc = "setrow"
    /\ sync_row' = NewSyncRow(row)
    /\ \E fault \in faults, d \in Ticks :
          IF fault = "set_x_container_sync_row"
          THEN /\ cursor' = cursor
               /\ exit' = fault
               /\ Count(ExitCounter(fault))
               /\ elapsed' = 0
               /\ pc' = "check"
          ELSE /\ cursor' = [cursor EXCEPT ![ContainerOf(path)] = sync_row']
               /\ exit' = exit
               /\ Count("none")
               /\ elapsed' = Tick(d)
               /\ pc' = "loop"
    /\ UNCHANGED <<config, rows, acked, all_locs, path, info, sync_to, sync_key,
                   row, seen, rv, calls, attempted>>

\* if time.time() - self.reported >= 3600: self.report()
\* The hour is an input; it is over at the latest when MaxCount events
\* have been counted.  The frame of the call that returned is dropped.
HourlyReport ==
    /\ pc = "check"
    /\ \E due \in BOOLEAN :
          /\ (container_syncs + container_deletes + container_puts
                + container_skips + container_failures >= MaxCount) => due
          /\ IF due THEN Report ELSE UNCHANGED counters
    /\ DropFrame
    /\ pc' = "next"
    /\ UNCHANGED <<config, rows, cursor, acked, all_locs>>

\* The locator is asked for the paths: the start of a scan.
ScanBegin ==
    /\ pc = "start"
    /\ all_locs' = AllLocs
    /\ pc' = "next"
    /\ UNCHANGED <<config, rows, cursor, acked, counters, frame, history>>

\* The locator is exhausted: run_once reports and returns, run_forever
\* sleeps until the next scan.
ScanEnd ==
    /\ pc = "next"
    /\ all_locs = <<>>
    /\ IF mode = "once"
       THEN Report /\ pc' = "done"
       ELSE UNCHANGED counters /\ pc' = "start"
    /\ UNCHANGED <<config, rows, cursor, acked, all_locs, frame, history>>

\* The process is killed at any point and started again the same way: a
\* new daemon over the same databases.
Restart ==
    /\ mode' = mode
    /\ Report
    /\ DropFrame
    /\ pc' = "start"
    /\ all_locs' = <<>>
    /\ UNCHANGED <<container_time, rows, cursor, acked>>

\* The container server records a change: a row with the next ROWID. The
\* daemon sees the change log only when it opens a database or asks for the
\* next rows, so a change is recorded just before one of those.
AppendRow ==
    /\ pc \in {"start", "next", "loop"}
    /\ Cardinality(UNION {{<<c, r>> : r \in rows[c]} : c \in Containers}) < MaxRows
    /\ \E c \in Containers, r \in RowRecs :
          /\ r.ROWID = LastRowId(rows[c]) + 1
          /\ rows' = [rows EXCEPT ![c] = @ \cup {r}]
    /\ UNCHANGED <<config, cursor, acked, counters, pc, all_locs, frame, history>>

LoopFaults == {"none", "get_items_since"}
SetRowFaults == {"none", "set_x_container_sync_row"}

Next ==
    \/ ScanBegin
    \/ ContainerSyncBegin(BeginFaults, BOOLEAN, Metadatas)
    \/ ContainerSyncLoop(LoopFaults)
    \/ ContainerSyncRow(DeleteResponses, RingOrder, GetResponses, PutResponses,
                        {PlainHeaders})
    \/ ContainerSyncSetRow(SetRowFaults)
    \/ HourlyReport
    \/ ScanEnd
    \/ Restart
    \/ AppendRow

Spec == Init /\ [][Next]_vars
OnceSpec == OnceInit /\ [][Next]_vars

\* ------------------------------------------------- continuous delivery

\* run_forever with a positive container_time, over containers that stay
\* sync-enabled with a valid target.
LiveInit == Start("forever") /\ container_time > 0
LiveMetadatas ==
    {md \in Metadatas :
        /\ ~Falsy(MetadataScan(md, "x-container-sync-to"))
        /\ ~Falsy(MetadataScan(md, "x-container-sync-key"))
        /\ TargetAllowed(md)}

\* What can go wrong there: a broker that cannot be opened, a cursor that
\* cannot be written, and remote calls that fail.
LiveBeginFaults == {"none", "open"}
LiveDeleteResponses == {"204", "404", "503"}
LiveGetResponses == {"200", "503"}
LivePutResponses == {"201", "503"}

LiveBegin == ContainerSyncBegin(LiveBeginFaults, {FALSE}, LiveMetadatas)
LiveLoop == ContainerSyncLoop({"none"})
LiveRow ==
    ContainerSyncRow(LiveDeleteResponses, RingOrder, LiveGetResponses,
                     LivePutResponses, {PlainHeaders})
LiveSetRow == ContainerSyncSetRow(SetRowFaults)

LiveNext ==
    \/ ScanBegin
    \/ LiveBegin
    \/ LiveLoop
    \/ LiveRow
    \/ LiveSetRow
    \/ HourlyReport
    \/ ScanEnd
    \/ AppendRow

\* The daemon keeps running (every step it can take it does take), every
\* remote call for a row succeeds eventually, and so does the write of
\* the cursor.
LiveFairness ==
    /\ WF_vars(ScanBegin)
    /\ WF_vars(LiveBegin)
    /\ WF_vars(LiveLoop)
    /\ WF_vars(LiveRow)
    /\ WF_vars(LiveSetRow)
    /\ WF_vars(HourlyReport)
    /\ WF_vars(ScanEnd)
    /\ \A c \in Containers :
          /\ SF_vars(LiveRow /\ path = DbPath(c) /\ rv' = "True")
          /\ SF_vars(LiveSetRow /\ path = DbPath(c) /\ pc' = "loop")

LiveSpec == LiveInit /\ [][LiveNext]_vars /\ LiveFairness

\* ------------------------------------------------ one row, every input

\* The daemon in its first call of a scan, on the first container, about
\* to replicate the row it fetched.
RowInit ==
    /\ mode = "forever"
    /\ container_time = 1
    /\ \E r \in RowRecs :
          /\ r.ROWID = 1
          /\ rows = [c \in Containers |-> IF c = "c1" THEN {r} ELSE {}]
          /\ row = r
    /\ cursor = [c \in Containers |-> 0]
    /\ acked = [c \in Containers |-> {}]
    /\ FreshDaemon
    /\ pc = "row"
    /\ all_locs = Tail(AllLocs)
    /\ path = Head(AllLocs)
    /\ info = 0
    /\ sync_to = <<AllowedHost>>
    /\ sync_key = <<"secret">>
    /\ sync_row = 0
    /\ elapsed = 0
    /\ seen = [known |-> TRUE, deleted |-> FALSE, to |-> TRUE, key |-> TRUE,
               allowed |-> TRUE]
    /\ exit = "loop"
    /\ rv = "none"
    /\ calls = <<>>
    /\ attempted = <<>>

\* container_sync_row over every node list the ring and the shuffle can
\* give, every answer of the remote side and every set of fetched headers.
RowNext ==
    ContainerSyncRow(DeleteResponses, NodeLists, GetResponses, PutResponses,
                     FetchedHeaders)

RowSpec == RowInit /\ [][RowNext]_vars

\* --------------------------------------------------------- properties

\* The container of the call in progress (or of the call that just returned).
Here == ContainerOf(path)

\* The steps of a call: its first part, the replication of a row, and the
\* write of the cursor that succeeded.
BeginStep == pc = "next" /\ pc' \in {"check", "loop", "dead"}
RowStep == pc = "row" /\ pc' \in {"setrow", "check"}
WriteStep == pc = "setrow" /\ pc' = "loop"

\* The ways a call that entered the row loop ends.
LoopExits == {"norows", "deadline", "rowfail", "get_items_since",
              "set_x_container_sync_row"}
\* The call returned to the scan loop after it had entered the row loop.
PassOver == pc = "check" /\ exit \in LoopExits

\* The cursor the last write of the call stored before its last row (the
\* cursor read at the start when that row is the first).
BeforeLastRow ==
    IF Len(attempted) >= 2 THEN attempted[Len(attempted) - 1] ELSE info
\* The last row of the call for which container_sync_row returned success
\* (the cursor read at the start when there is none).
LastSuccess == IF rv = "True" THEN Last(attempted) ELSE BeforeLastRow

\* One counter went up by one and the others stayed.
OnlyCounted(name) ==
    /\ container_syncs' = container_syncs + (IF name = "syncs" THEN 1 ELSE 0)
    /\ container_deletes' = container_deletes + (IF name = "deletes" THEN 1 ELSE 0)
    /\ container_puts' = container_puts + (IF name = "puts" THEN 1 ELSE 0)
    /\ container_skips' = container_skips + (IF name = "skips" THEN 1 ELSE 0)
    /\ container_failures' = container_failures
                               + (IF name = "failures" THEN 1 ELSE 0)

\* The call returned at once: no row fetched, no remote call, no cursor write.
ReturnedAtOnce ==
    /\ pc' = "check"
    /\ row' = NoRow
    /\ attempted' = <<>>
    /\ calls' = <<>>
    /\ cursor' = cursor

\* C1: over any sequence of calls and row outcomes, the persisted cursor
\* of a container never decreases, and every write of it stores a row id
\* strictly greater than the value persisted before.
C1_CursorMonotonic ==
    [][/\ \A c \in Containers : cursor'[c] >= cursor[c]
       /\ WriteStep => cursor'[Here] > cursor[Here]]_vars
\* A call found the cursor at 2, left by earlier writes, and its row failed.
C1_Witness ==
    /\ pc = "check"
    /\ exit = "rowfail"
    /\ attempted = <<3>>
    /\ cursor[Here] = 2

\* C2 (as stated): at the end of any container pass the persisted cursor
\* equals the id of the last row for which container_sync_row returned
\* success, or its value at the start of the pass if no row succeeded.
C2_CursorIsLastSuccess == PassOver => cursor[Here] = LastSuccess

\* C2 (amended): the cursor is written only right after container_sync_row
\* returned success for a row, and is set to that row's id; at the end of a
\* pass it equals the id of the last row that succeeded (its value at the
\* start if none did), unless the pass ended because
\* set_x_container_sync_row raised: then it is still the value persisted
\* before that row.
C2_Amended ==
    /\ [](PassOver =>
            cursor[Here] = IF exit = "set_x_container_sync_row"
                           THEN BeforeLastRow ELSE LastSuccess)
    /\ [][cursor' # cursor =>
            /\ pc = "setrow"
            /\ rv = "True"
            /\ row.ROWID = Last(attempted)
            /\ cursor' = [cursor EXCEPT ![Here] = row.ROWID]]_vars
\* The second row of a pass succeeded and the write of the cursor raised:
\* the cursor is at the first row.
C2_Witness ==
    /\ PassOver
    /\ exit = "set_x_container_sync_row"
    /\ rv = "True"
    /\ attempted = <<1, 2>>
    /\ cursor[Here] = 1

\* C3: within one pass rows are handed to container_sync_row in strictly
\* increasing id order, starting with the smallest id greater than the
\* cursor and skipping none; once a row fails the pass is over, so no row
\* with a larger id is attempted, and the persisted cursor is at the last
\* row that succeeded before it.
C3_OrderAndHalt ==
    /\ \A i \in 1..(Len(attempted) - 1) : attempted[i] < attempted[i + 1]
    /\ \A i \in 1..Len(attempted) :
          attempted[i] = Min({r \in RowIds(rows[Here]) :
                                r > (IF i = 1 THEN info ELSE attempted[i - 1])})
    /\ rv = "False" =>
          /\ pc = "check"
          /\ cursor[Here] = BeforeLastRow
\* Rows 1, 2, 3 with row 2 failing: row 3 is not attempted, the cursor is 1.
C3_Witness ==
    /\ rv = "False"
    /\ attempted = <<1, 2>>
    /\ 3 \in RowIds(rows[Here])
    /\ cursor[Here] = 1

\* C4: in every reachable state, every change row with an id up to the
\* persisted cursor had its remote DELETE or PUT answered with success (a
\* 404 to the DELETE counts).
C4_CursorWithinConfirmed ==
    \A c \in Containers :
        \A r \in RowIds(rows[c]) : r <= cursor[c] => r \in acked[c]
\* The deadline cut a pass short after a row: the cursor is at that row
\* and rows are pending.
C4_Witness ==
    /\ pc = "check"
    /\ exit = "deadline"
    /\ cursor[Here] >= 1
    /\ LastRowId(rows[Here]) > cursor[Here]

\* C5: a pass increments syncs only when no row remains after the cursor
\* (not when a row failed, not when the deadline passed with rows
\* pending), and it does increment it when the row loop ends for that.
C5_SyncsIffDrained ==
    [][/\ container_syncs' = container_syncs + 1 =>
             /\ pc = "loop"
             /\ NextRows(rows[Here], sync_row) = <<>>
       /\ (pc = "loop" /\ pc' = "check" /\ exit' = "norows") =>
             container_syncs' = container_syncs + 1]_vars

\* C6: container_sync never raises: whichever collaborator fails, the
\* failure is caught and control is back in the scan loop.
C6_NeverRaises ==
    exit \in ({"raised", "rowfail"} \cup ErrorExits) => pc = "check"

\* C7 (as stated): for every container without both sync metadata keys
\* present and non-empty, one call increments skips exactly once, changes
\* no other counter, writes no cursor and makes no remote call.
C7_LackingKeySkips ==
    [][(BeginStep /\ seen'.known /\ ~(seen'.to /\ seen'.key)) =>
          OnlyCounted("skips") /\ ReturnedAtOnce]_vars

\* C7 (amended): the same for every container that is not deleted and
\* whose broker answers get_info, is_deleted and metadata without raising.
C7_Amended ==
    [][(BeginStep /\ seen'.known /\ ~seen'.deleted
          /\ ~(seen'.to /\ seen'.key)) =>
          OnlyCounted("skips") /\ ReturnedAtOnce]_vars
\* A container with a sync target and no sync key was skipped.
C7_Witness ==
    /\ pc = "check"
    /\ exit = "skip"
    /\ seen.known /\ ~seen.deleted /\ seen.to /\ ~seen.key
    /\ container_skips = 1

\* C8 (as stated): for every container whose sync target has a host that is
\* not allowed, one call increments failures exactly once, changes no
\* other counter, fetches no row, writes no cursor, makes no remote call.
C8_RefusedTargetFails ==
    [][(BeginStep /\ seen'.known /\ seen'.to /\ ~seen'.allowed) =>
          OnlyCounted("failures") /\ ReturnedAtOnce]_vars

\* C8 (amended): the same for every container that is not deleted, has
\* both sync metadata keys present and non-empty, and whose broker and
\* validate_sync_to answer without raising.
C8_Amended ==
    [][(BeginStep /\ seen'.known /\ ~seen'.deleted /\ seen'.to /\ seen'.key
          /\ ~seen'.allowed) =>
          OnlyCounted("failures") /\ ReturnedAtOnce]_vars
\* A container with pending rows and a target on another host failed.
C8_Witness ==
    /\ pc = "check"
    /\ exit = "invalid"
    /\ seen.known /\ ~seen.deleted /\ seen.to /\ seen.key /\ ~seen.allowed
    /\ rows[Here] # {}
    /\ container_failures = 1

\* C9: for a deleted row, a DELETE answered 404 is treated like a
\* successful one: container_sync_row returns success, deletes goes up by
\* one, failures does not, and the write that follows stores that row's id
\* in the cursor; so it is every time the row is replayed.
C9_Delete404IsSuccess ==
    [][/\ (RowStep /\ calls' = <<Call("DELETE", "sync_to", "404")>>) =>
             /\ rv' = "True"
             /\ OnlyCounted("deletes")
             /\ pc' = "setrow"
       /\ (WriteStep /\ calls = <<Call("DELETE", "sync_to", "404")>>) =>
             cursor'[Here] = row.ROWID]_vars
\* The cursor is at a deleted row whose DELETE was answered 404.
C9_Witness ==
    /\ pc = "loop"
    /\ row.deleted
    /\ calls = <<Call("DELETE", "sync_to", "404")>>
    /\ rv = "True"
    /\ cursor[Here] = row.ROWID

\* C10: in continuous mode with a positive container_time, for containers
\* that stay sync-enabled with a valid target and remote calls that
\* succeed eventually, the persisted cursor eventually reaches every row
\* of the change log, also when the deadline cuts passes short.
C10_EventualDelivery ==
    \A c \in Containers :
        \A r \in 1..MaxRows :
            (r \in RowIds(rows[c])) ~> (cursor[c] >= r)

\* The PUT of the row was made; the headers fetched for it and sent by it.
PutMade == calls # <<>> /\ Last(calls).op = "PUT"
Fetched == calls[Len(calls) - 1].headers
Forwarded == Last(calls).headers
\* Header names are compared without regard to case.
LowerHeader(n) ==
    CASE n = "X-Timestamp" -> "x-timestamp"
      [] n = "X-Container-Sync-Key" -> "x-container-sync-key"
      [] OTHER -> n
QuotedEtag(h) ==
    /\ "etag" \in DOMAIN h
    /\ Len(h["etag"]) >= 2
    /\ Head(h["etag"]) = Quote
    /\ Last(h["etag"]) = Quote

\* C11: for fetched headers with date, last-modified and a quoted etag,
\* the headers of the PUT hold neither date nor last-modified, hold the
\* etag without its quotes, hold the row's created_at as their only
\* timestamp (whatever timestamp was fetched), hold the sync key, and hold
\* every other fetched header unchanged.
C11_HeaderSanitization ==
    (PutMade /\ {"date", "last-modified"} \subseteq DOMAIN Fetched
       /\ QuotedEtag(Fetched)) =>
       /\ "date" \notin DOMAIN Forwarded
       /\ "last-modified" \notin DOMAIN Forwarded
       /\ Forwarded["etag"] = SubSeq(Fetched["etag"], 2, Len(Fetched["etag"]) - 1)
       /\ \E n \in DOMAIN Forwarded : LowerHeader(n) = "x-timestamp"
       /\ \A n \in DOMAIN Forwarded :
             LowerHeader(n) = "x-timestamp" => Forwarded[n] = CreatedAt(row)
       /\ Forwarded["X-Container-Sync-Key"] = sync_key
       /\ \A n \in DOMAIN Fetched \ {"date", "last-modified", "etag"} :
             LowerHeader(n) # "x-timestamp" =>
                n \in DOMAIN Forwarded /\ Forwarded[n] = Fetched[n]

\* C12: whenever the replication of a row fails (the remote side did not
\* confirm it: any status but success on the GET/PUT path, every node
\* failing, a local error, any status but success or 404 to the DELETE),
\* container_sync_row returns false, failures goes up by exactly one and
\* no other counter moves, the cursor stays, and the pass is over: it
\* counts no second failure, and the first row after the persisted cursor
\* is still the failed row, which the next pass attempts first.
C12_RowFailure ==
    /\ [](rv = "False" =>
            /\ pc = "check"
            /\ NextRows(rows[Here], cursor[Here]) = <<row>>)
    /\ [][/\ (RowStep /\ ~Confirmed(calls')) =>
                /\ rv' = "False"
                /\ OnlyCounted("failures")
                /\ cursor' = cursor
                /\ pc' = "check"
          /\ (pc \in {"loop", "row", "setrow"}
                /\ container_failures' = container_failures + 1) =>
                pc' = "check"]_vars
\* The second row of a pass was refused by the sync target (401 to the
\* PUT): the cursor is at the first row.
C12_Witness ==
    /\ pc = "check"
    /\ rv = "False"
    /\ Last(calls).op = "PUT"
    /\ Last(calls).status = "401"
    /\ attempted = <<1, 2>>
    /\ cursor[Here] = 1
    /\ container_failures = 1

\* The reads of the fan-out the row made, in the order made, and the node
\* list they went through.
RECURSIVE Gets(_)
Gets(made) ==
    IF made = <<>> THEN <<>>
    ELSE IF Head(made).op = "GET" THEN <<Head(made)>> \o Gets(Tail(made))
    ELSE Gets(Tail(made))
Shuffled == calls[1].nodes
\* The row was not a deleted one and container_sync_row is over.
ReplicationOver == rv # "none" /\ ~row.deleted

\* C13: for a row that is not deleted the nodes are read one at a time in
\* the shuffled order, the first successful read is the last read, and the
\* row fails in the GET phase only after every node of the list was read
\* and failed: a failed node never fails the row while a node is untried.
C13_ReplicaFailover ==
    ReplicationOver =>
       LET gets == Gets(calls)
       IN /\ Len(gets) <= Len(Shuffled)
          /\ \A i \in 1..Len(gets) : gets[i].to = Shuffled[i]
          /\ \A i \in 1..(Len(gets) - 1) : gets[i].status # "200"
          /\ (rv = "False" /\ ~PutMade) =>
                /\ Len(gets) = Len(Shuffled)
                /\ \A i \in 1..Len(gets) : gets[i].status # "200"

\* The places of the PUTs among the calls of the row.
Puts == {i \in 1..Len(calls) : calls[i].op = "PUT"}

\* C14: container_sync_row on a row that is not deleted makes at most one
\* PUT, makes it right after a read that succeeded, and makes no call
\* after it: a PUT that failed is the row's failure, with no further read
\* and no second PUT.
C14_OnePut ==
    ReplicationOver =>
       /\ Cardinality(Puts) <= 1
       /\ \A i \in Puts :
             /\ i = Len(calls)
             /\ calls[i - 1].op = "GET"
             /\ calls[i - 1].status = "200"
             /\ calls[i].status # "201" => rv = "False"
\* The first node failed, the second answered, and the PUT failed.
C14_Witness ==
    /\ ReplicationOver
    /\ Len(calls) = 4
    /\ calls[2].op = "GET" /\ calls[2].status = "503"
    /\ calls[3].op = "GET" /\ calls[3].status = "200"
    /\ calls[4].op = "PUT" /\ calls[4].status = "503"
    /\ rv = "False"

\* C15: when the path is no database file, or is_deleted answers that the
\* container is deleted (whatever its sync metadata and its pending rows),
\* container_sync leaves the five counters as they were, writes no cursor
\* and makes no remote call.
C15_IgnoredCandidates ==
    [][(BeginStep /\ (path' = NonDbPath \/ (seen'.known /\ seen'.deleted))) =>
          UNCHANGED counters /\ ReturnedAtOnce]_vars
\* A deleted container with both sync keys, an allowed target and pending
\* rows was left alone.
C15_Witness ==
    /\ pc = "check"
    /\ exit = "deleted"
    /\ seen.known /\ seen.deleted /\ seen.to /\ seen.key /\ seen.allowed
    /\ cursor[Here] < LastRowId(rows[Here])
    /\ calls = <<>>

\* The step at the head of the row loop, and the clock at or past the
\* deadline (pass start + container_time).
LoopStep == pc = "loop" /\ pc' \in {"row", "check"}
AtDeadline == elapsed >= container_time

\* C16 (as stated): no row is fetched or handed to container_sync_row
\* once the clock is at or past the deadline.
C16_NoRowPastDeadline ==
    [][AtDeadline => ~(LoopStep /\ pc' = "row") /\ ~RowStep]_vars

\* C16 (amended): the deadline is checked at the head of the row loop,
\* before each row is fetched, and only there; once that check finds the
\* clock at or past the deadline no row is fetched or handed to
\* container_sync_row (a row fetched before is still replicated, though
\* the clock passes the deadline meanwhile); a row already started is
\* never interrupted; rows left pending at the deadline leave the cursor
\* at the last confirmed row.
C16_Amended ==
    /\ []((pc = "check" /\ exit = "deadline") =>
            /\ cursor[Here] = LastSuccess
            /\ \A r \in RowIds(rows[Here]) :
                  r <= cursor[Here] => r \in acked[Here])
    /\ [][/\ (LoopStep /\ AtDeadline) =>
                /\ pc' = "check"
                /\ exit' = "deadline"
                /\ row' = row
                /\ attempted' = attempted
                /\ calls' = calls
                /\ cursor' = cursor
          /\ (LoopStep /\ pc' = "row") => ~AtDeadline
          /\ (exit' = "deadline" /\ exit # "deadline") => pc = "loop"]_vars
\* The deadline passed while the first row was replicated: the row was
\* finished, the cursor is at it, and the second row is left pending.
C16_Witness ==
    /\ pc = "check"
    /\ exit = "deadline"
    /\ attempted = <<1>>
    /\ rv = "True"
    /\ cursor[Here] = 1
    /\ 2 \in RowIds(rows[Here])

\* C17: in a scan every path the locator yields is passed to
\* container_sync once, in the order yielded, whatever happened to the
\* containers before it (skipped, refused, a row failure, an unexpected
\* error): while paths are left the scan goes on, and a call writes no
\* cursor but its own container's.
C17_ContainerIsolation ==
    /\ [](all_locs # <<>> => pc \in {"next", "loop", "row", "setrow", "check"})
    /\ [][/\ BeginStep => path' = Head(all_locs) /\ all_locs' = Tail(all_locs)
          /\ all_locs' # all_locs =>
                \/ BeginStep
                \/ pc = "start" /\ all_locs = <<>>
                \/ pc' = "start" /\ all_locs' = <<>>
          /\ \A c \in Containers :
                cursor'[c] # cursor[c] => pc = "setrow" /\ c = Here]_vars

\* The five counters are zero.
CountersZero ==
    /\ container_syncs = 0
    /\ container_deletes = 0
    /\ container_puts = 0
    /\ container_skips = 0
    /\ container_failures = 0

Outcomes == container_syncs + container_skips + container_failures

\* C19: a container_sync call on a database path whose container is not
\* deleted, and that returns, increments exactly one of syncs, skips and
\* failures, by one: it does so with the step it returns with and with no
\* step before.
C19_OneOutcome ==
    [][/\ (pc \in {"next", "loop", "row", "setrow"} /\ pc' = "check"
             /\ path' # NonDbPath /\ ~seen'.deleted) =>
             /\ Outcomes' = Outcomes + 1
             /\ container_syncs' >= container_syncs
             /\ container_skips' >= container_skips
             /\ container_failures' >= container_failures
       /\ (pc \in {"next", "loop", "row", "setrow"}
             /\ pc' \in {"loop", "row", "setrow"}) => Outcomes' = Outcomes]_vars
\* A call replicated two rows and found no third: one sync counted, no
\* skip, no failure.
C19_Witness ==
    /\ pc = "check"
    /\ exit = "norows"
    /\ attempted = <<1, 2>>
    /\ container_syncs = 1
    /\ container_skips = 0
    /\ container_failures = 0
    /\ container_puts + container_deletes = 2

====
